---- MODULE Spec2Model ----
(***************************************************************************)
(* Model of python_scripts/rasppi_lora_receiver.py: the receiver for the   *)
(* REYAX RYLR896 LoRa transceiver.  main() opens the serial port, sets the *)
(* network key, prints the module's configuration, and then reads, parses  *)
(* and displays telemetry lines forever.                                   *)
(*                                                                         *)
(* Bytes are integers 0..255, text is a sequence of one-character strings. *)
(* A float is a record [kind, num, den]: kind "fin" is the decimal num/den *)
(* with den the least power of ten, kind "inf" has num = 1 or -1, and      *)
(* kind "nan" is not-a-number.                                             *)
(*                                                                         *)
(* Spec is main from the opening of the port on.  SpecStop is Spec with a  *)
(* caller that may ask the loop to stop.  SpecScale applies                *)
(* eight_bit_color to every integer sample, and SpecDecode the body of the *)
(* loop to two lines that have their third comma-segment in common.        *)
(***************************************************************************)
EXTENDS Integers, Sequences, FiniteSets, TLC

\* ------------------------------------------------------------------ bytes
CR == 13
LF == 10
HighByte == 128

\* The characters the modelled lines are written in, by ASCII code.
AsciiTable ==
    (10 :> "\n") @@ (13 :> "\r") @@ (32 :> " ") @@ (43 :> "+") @@ (44 :> ",")
    @@ (45 :> "-") @@ (46 :> ".") @@ (48 :> "0") @@ (49 :> "1") @@ (50 :> "2")
    @@ (51 :> "3") @@ (52 :> "4") @@ (53 :> "5") @@ (54 :> "6") @@ (55 :> "7")
    @@ (56 :> "8") @@ (57 :> "9") @@ (61 :> "=") @@ (63 :> "?") @@ (65 :> "A")
    @@ (67 :> "C") @@ (75 :> "K") @@ (79 :> "O") @@ (82 :> "R") @@ (84 :> "T")
    @@ (86 :> "V") @@ (97 :> "a") @@ (102 :> "f") @@ (105 :> "i")
    @@ (110 :> "n") @@ (120 :> "x") @@ (124 :> "|")

\* str.encode(text): the bytes of a text written in the table's characters.
Encode(text) ==
    [i \in 1..Len(text) |-> CHOOSE b \in DOMAIN AsciiTable : AsciiTable[b] = text[i]]

\* bytes.decode(encoding="ASCII"): UnicodeDecodeError on any byte above 127.
\* bytes.decode(encoding="utf-8") behaves the same on the bytes modelled here:
\* 0x80 alone is a stray continuation byte.
BytesDecode(bytes) ==
    IF \E i \in 1..Len(bytes) : bytes[i] > 127
    THEN [exc |-> "UnicodeDecodeError", text |-> <<>>]
    ELSE [exc |-> "none",
          text |-> [i \in 1..Len(bytes) |->
                      IF bytes[i] \in DOMAIN AsciiTable
                      THEN AsciiTable[bytes[i]] ELSE "?"]]

\* s[:-2] on bytes or text.
DropLast2(s) == IF Len(s) <= 2 THEN <<>> ELSE SubSeq(s, 1, Len(s) - 2)

\* ------------------------------------------------------------------ str.split
RECURSIVE Split(_, _)
Split(s, sep) ==
    IF \A i \in 1..Len(s) : s[i] # sep
    THEN <<s>>
    ELSE LET k == CHOOSE i \in 1..Len(s) :
                     s[i] = sep /\ \A j \in 1..(i - 1) : s[j] # sep
         IN  <<SubSeq(s, 1, k - 1)>> \o Split(SubSeq(s, k + 1, Len(s)), sep)

\* ------------------------------------------------------------------ float()
Digits == {"0", "1", "2", "3", "4", "5", "6", "7", "8", "9"}
DigitVal(c) == CHOOSE d \in 0..9 : AsciiTable[48 + d] = c
IsSpace(c) == c \in {" ", "\r", "\n"}

RECURSIVE StripLeft(_)
StripLeft(s) == IF s # <<>> /\ IsSpace(s[1]) THEN StripLeft(Tail(s)) ELSE s
RECURSIVE StripRight(_)
StripRight(s) ==
    IF s # <<>> /\ IsSpace(s[Len(s)]) THEN StripRight(SubSeq(s, 1, Len(s) - 1)) ELSE s
Strip(s) == StripRight(StripLeft(s))

RECURSIVE DigitsValue(_)
DigitsValue(s) ==
    IF s = <<>> THEN 0 ELSE 10 * DigitsValue(SubSeq(s, 1, Len(s) - 1)) + DigitVal(s[Len(s)])
RECURSIVE Pow10(_)
Pow10(n) == IF n = 0 THEN 1 ELSE 10 * Pow10(n - 1)

RECURSIVE Normalize(_, _)
Normalize(num, den) ==
    IF den > 1 /\ num % 10 = 0 THEN Normalize(num \div 10, den \div 10)
    ELSE [kind |-> "fin", num |-> num, den |-> den]

Inf(sign) == [kind |-> "inf", num |-> sign, den |-> 1]
NaN == [kind |-> "nan", num |-> 0, den |-> 1]
NotANumber == [exc |-> "ValueError", val |-> NaN]

\* float(text): optional surrounding whitespace, optional sign, then
\* "inf", "nan", or decimal digits with at most one point and at least one
\* digit.  Anything else raises ValueError.
ParseParts(sgn, ip, fp) ==
    IF \/ Len(ip) + Len(fp) = 0
       \/ \E i \in 1..Len(ip) : ip[i] \notin Digits
       \/ \E i \in 1..Len(fp) : fp[i] \notin Digits
    THEN NotANumber
    ELSE [exc |-> "none",
          val |-> Normalize(sgn * (DigitsValue(ip) * Pow10(Len(fp)) + DigitsValue(fp)),
                            Pow10(Len(fp)))]

ParseDecimal(sgn, body, dots) ==
    IF dots = {} THEN ParseParts(sgn, body, <<>>)
    ELSE IF Cardinality(dots) > 1 THEN NotANumber
    ELSE ParseParts(sgn, SubSeq(body, 1, (CHOOSE i \in dots : TRUE) - 1),
                    SubSeq(body, (CHOOSE i \in dots : TRUE) + 1, Len(body)))

ParseUnsigned(sgn, body) ==
    IF body = <<"i", "n", "f">> THEN [exc |-> "none", val |-> Inf(sgn)]
    ELSE IF body = <<"n", "a", "n">> THEN [exc |-> "none", val |-> NaN]
    ELSE ParseDecimal(sgn, body, {i \in 1..Len(body) : body[i] = "."})

ParseSigned(s) ==
    ParseUnsigned(IF s # <<>> /\ s[1] = "-" THEN -1 ELSE 1,
                  IF s # <<>> /\ s[1] \in {"+", "-"} THEN Tail(s) ELSE s)

ParseFloat(text) == ParseSigned(Strip(text))

\* A list comprehension that skips what is no number instead of raising.
ConsSkipping(h, t) ==
    IF t.exc # "none" THEN t
    ELSE IF h.exc # "none" THEN t
    ELSE [exc |-> "none", val |-> <<h.val>> \o t.val]

\* [float(i) for i in payload]: the first element that is no number raises.
Cons(h, t) ==
    IF h.exc # "none" THEN [exc |-> h.exc, val |-> <<>>]
    ELSE IF t.exc # "none" THEN t
    ELSE [exc |-> "none", val |-> <<h.val>> \o t.val]

RECURSIVE FloatAll(_)
FloatAll(fields) ==
    IF fields = <<>> THEN [exc |-> "none", val |-> <<>>]
    ELSE Cons(ParseFloat(Head(fields)), FloatAll(Tail(fields)))

\* parse_payload taking payload[1], the second comma-segment.
SecondSegment(segs) ==
    IF Len(segs) < 2 THEN [exc |-> "IndexError", val |-> <<>>]
    ELSE FloatAll(Split(segs[2], "|"))

\* The third comma-segment of parse_payload, split on "|", as floats.
ThirdSegment(segs) ==
    IF Len(segs) < 3 THEN [exc |-> "IndexError", val |-> <<>>]
    ELSE FloatAll(Split(segs[3], "|"))

\* A parse_payload that takes a report of five comma-segments only.
parse_payload_of_five(payload) ==
    IF Len(Split(payload, ",")) # 5 THEN [exc |-> "IndexError", val |-> <<>>]
    ELSE ThirdSegment(Split(payload, ","))

\* parse_payload(payload): the third comma-segment, split on "|", as floats.
parse_payload(payload) == ThirdSegment(Split(payload, ","))

\* ------------------------------------------------------------------ arithmetic
\* n/d rounded to the nearest integer, ties to the even one (Python 3 round).
RoundHalfEven(n, d) ==
    LET q == n \div d
        r == n - q * d
    IN  IF 2 * r < d THEN q
        ELSE IF 2 * r > d THEN q + 1
        ELSE IF q % 2 = 0 THEN q ELSE q + 1

ColorDivNum == 4097
ColorDivDen == 255

\* An eight_bit_color without its round(): int() cuts the fraction off.
eight_bit_color_cut(value) ==
    IF value.kind = "inf" THEN [exc |-> "OverflowError", val |-> 0]
    ELSE IF value.kind = "nan" THEN [exc |-> "ValueError", val |-> 0]
    ELSE [exc |-> "none",
          val |-> (value.num * ColorDivDen) \div (value.den * ColorDivNum)]

\* eight_bit_color(value): int(round(value / (4097 / 255), 0)).  int() of an
\* infinity raises OverflowError, of a NaN raises ValueError.
eight_bit_color(value) ==
    IF value.kind = "inf" THEN [exc |-> "OverflowError", val |-> 0]
    ELSE IF value.kind = "nan" THEN [exc |-> "ValueError", val |-> 0]
    ELSE [exc |-> "none",
          val |-> RoundHalfEven(value.num * ColorDivDen, value.den * ColorDivNum)]

\* celsius_to_fahrenheit(value): (value * 1.8) + 32.
celsius_to_fahrenheit(value) ==
    IF value.kind = "fin"
    THEN Normalize(value.num * 18 + 320 * value.den, value.den * 10)
    ELSE value

\* round(value, 2): an infinity or a NaN is returned unchanged.
Round2(value) ==
    IF value.kind = "fin"
    THEN Normalize(RoundHalfEven(value.num * 100, value.den), 100)
    ELSE value

\* colr(text, fore, back=(r, g, b)) of the colr library: components in 0..255
\* are rendered.  Outside that range the library either renders or raises its
\* InvalidColr, a ValueError; both outcomes are allowed for.
ColrOutcomes(rgb) ==
    IF \A i \in 1..Len(rgb) : rgb[i] \in 0..255 THEN {"none"} ELSE {"none", "ValueError"}

Ev(name, val) == <<name, val>>

\* The rest of display_color, given the raw and the scaled values.
\* strict: whether the colr library rejects components outside 0..255.
ShowColor(raw, v8, strict) ==
    LET rgb  == <<v8[1], v8[2], v8[3]>>
        aaa  == <<v8[4], v8[4], v8[4]>>
        head == <<Ev("Color12", raw), Ev("Color8", v8)>>
    IN  IF strict /\ "ValueError" \in ColrOutcomes(rgb)
        THEN [exc |-> "ValueError", out |-> head]
        ELSE IF strict /\ "ValueError" \in ColrOutcomes(aaa)
        THEN [exc |-> "ValueError", out |-> head \o <<Ev("Swatch", rgb)>>]
        ELSE [exc |-> "none", out |-> head \o <<Ev("Swatch", rgb), Ev("Intensity", aaa)>>]

\* The four calls of eight_bit_color: the first that raises ends the function.
ScaleColor(raw, c8, strict) ==
    IF \E i \in 1..4 : c8[i].exc # "none"
    THEN [exc |-> c8[CHOOSE i \in 1..4 :
                        c8[i].exc # "none" /\ \A j \in 1..(i - 1) : c8[j].exc = "none"].exc,
          out |-> <<Ev("Color12", raw)>>]
    ELSE ShowColor(raw, [i \in 1..4 |-> c8[i].val], strict)

\* display_color(r, g, b, a): what is printed, and the exception that ends it.
display_color(r, g, b, a, strict) ==
    ScaleColor(<<r, g, b, a>>,
               <<eight_bit_color(r), eight_bit_color(g), eight_bit_color(b),
                 eight_bit_color(a)>>, strict)

display_temperature(value) == Ev("Temperature", Round2(celsius_to_fahrenheit(value)))
display_humidity(value) == Ev("Humidity", Round2(value))
display_pressure(value) == Ev("Pressure", Round2(value))

NumFields == 7

Extend(o, c) == [exc |-> c.exc, out |-> o \o c.out]

\* Lines 51-55 of main: display the measurements.  data[i] of a list that is
\* too short raises IndexError.
Display(data, strict) ==
    IF Len(data) < 1
    THEN [exc |-> "IndexError", out |-> <<Ev("SensorData", data)>>]
    ELSE IF Len(data) < 2
    THEN [exc |-> "IndexError",
          out |-> <<Ev("SensorData", data), display_temperature(data[1])>>]
    ELSE IF Len(data) < 3
    THEN [exc |-> "IndexError",
          out |-> <<Ev("SensorData", data), display_temperature(data[1]),
                    display_humidity(data[2])>>]
    ELSE IF Len(data) < NumFields
    THEN [exc |-> "IndexError",
          out |-> <<Ev("SensorData", data), display_temperature(data[1]),
                    display_humidity(data[2]), display_pressure(data[3])>>]
    ELSE Extend(<<Ev("SensorData", data), display_temperature(data[1]),
                  display_humidity(data[2]), display_pressure(data[3])>>,
                display_color(data[4], data[5], data[6], data[7], strict))

Parsed(p, strict) ==
    IF p.exc # "none" THEN [exc |-> p.exc, out |-> <<>>] ELSE Display(p.val, strict)

\* Lines 50-55 of main: parse the payload and display the measurements.  The
\* result is what was printed and the exception raised, if any.
ParseAndDisplay(payload, strict) == Parsed(parse_payload(payload), strict)

\* ------------------------------------------------------------------ the lines on the wire
RECURSIVE Join(_, _)
Join(parts, sep) ==
    IF parts = <<>> THEN <<>>
    ELSE IF Len(parts) = 1 THEN parts[1]
    ELSE parts[1] \o <<sep>> \o Join(Tail(parts), sep)

MaxFields == 8

\* The sub-fields of the sample report of parse_payload's comment,
\* 23.94|37.71|99.89|16|38|53|80, continued with further integers, and the
\* floats they stand for.
SampleField(i) ==
    IF i = 1 THEN <<"2", "3", ".", "9", "4">>
    ELSE IF i = 2 THEN <<"3", "7", ".", "7", "1">>
    ELSE IF i = 3 THEN <<"9", "9", ".", "8", "9">>
    ELSE IF i = 4 THEN <<"1", "6">>
    ELSE IF i = 5 THEN <<"3", "8">>
    ELSE IF i = 6 THEN <<"5", "3">>
    ELSE IF i = 7 THEN <<"8", "0">>
    ELSE <<"9", "0" >> \o [j \in 1..(i - 8) |-> "1"]
SampleValue(i) ==
    IF i = 1 THEN [kind |-> "fin", num |-> 2394, den |-> 100]
    ELSE IF i = 2 THEN [kind |-> "fin", num |-> 3771, den |-> 100]
    ELSE IF i = 3 THEN [kind |-> "fin", num |-> 9989, den |-> 100]
    ELSE IF i = 4 THEN [kind |-> "fin", num |-> 16, den |-> 1]
    ELSE IF i = 5 THEN [kind |-> "fin", num |-> 38, den |-> 1]
    ELSE IF i = 6 THEN [kind |-> "fin", num |-> 53, den |-> 1]
    ELSE IF i = 7 THEN [kind |-> "fin", num |-> 80, den |-> 1]
    ELSE [kind |-> "fin", num |-> 90 * Pow10(i - 8) + (Pow10(i - 8) - 1) \div 9, den |-> 1]

\* Other sub-fields a report may carry: numbers float() accepts ...
OddNumbers ==
    { [text |-> <<"i", "n", "f">>, val |-> Inf(1)],
      [text |-> <<"-", "i", "n", "f">>, val |-> Inf(-1)],
      [text |-> <<"n", "a", "n">>, val |-> NaN],
      [text |-> <<"5", "0", "0", "0">>, val |-> [kind |-> "fin", num |-> 5000, den |-> 1]],
      [text |-> <<"-", "4", "0", ".", "5">>, val |-> [kind |-> "fin", num |-> -405, den |-> 10]],
      [text |-> <<" ", "7", ".">>, val |-> [kind |-> "fin", num |-> 7, den |-> 1]] }
\* ... and texts it rejects.
NonNumbers == { <<"x">>, <<>>, <<"1", ".", "2", ".", "3">>, <<"-">>, <<"1", "x">> }

\* A report's sub-fields: the sample's first k, possibly with one replaced.
SampleFields(k) == [i \in 1..k |-> SampleField(i)]
SampleValues(k) == [i \in 1..k |-> SampleValue(i)]
Replace(seq, p, x) == [i \in 1..Len(seq) |-> IF i = p THEN x ELSE seq[i]]

Prefix == << <<"+", "R", "C", "V", "=", "1", "1", "6">>, <<"2", "9">> >>
Suffix == << <<"-", "6", "1">>, <<"5", "6">> >>
CRLF == <<"\r", "\n">>

\* +RCV=<addr>,<len>,<f0>|...|<fk>,<rssi>,<snr> as the module sends it.
Report(fields) == Join(Prefix \o <<Join(fields, "|")>> \o Suffix, ",")
Frame(text) == Encode(text \o CRLF)

\* Reports with k sample sub-fields, k = 1..MaxFields.
CountedLines == { Frame(Report(SampleFields(k))) : k \in 1..MaxFields }
\* Reports of 7 numbers, one of them an odd one.
OddLines ==
    { Frame(Report(Replace(SampleFields(NumFields), p, o.text))) :
        p \in {1, 4, NumFields}, o \in OddNumbers }
\* Reports of 7 or of 3 sub-fields, one of them no number.
NonNumericLines ==
    UNION { { Frame(Report(Replace(SampleFields(k), p, x))) : p \in {1, k}, x \in NonNumbers } :
            k \in {3, NumFields} }
\* Lines with fewer or more comma-segments, or a third one that is empty or last.
SegmentLines ==
    { Frame(<<>>), Frame(Prefix[1]), Frame(Join(Prefix, ",")),
      Frame(Join(Prefix \o << <<>> >> \o Suffix, ",")),
      Frame(Join(Prefix \o <<Join(SampleFields(NumFields), "|")>>, ",")),
      Frame(Join(Prefix \o <<Join(SampleFields(NumFields), "|")>> \o <<Suffix[1]>>, ",")) }
\* Lines that do not end in CR LF: a lone LF, and a line cut by the timeout.
UnterminatedLines ==
    { Encode(Report(SampleFields(NumFields)) \o <<"\n">>),
      Encode(Report(SampleFields(NumFields))),
      Encode(Join(Prefix \o <<Join(SampleFields(NumFields), "|")>>, ",") \o <<"\n">>),
      <<LF>> }
\* Lines with a byte that is no ASCII text.
CorruptLines ==
    { <<HighByte>> \o Frame(Report(SampleFields(NumFields))),
      <<HighByte, CR, LF>>,
      Encode(Report(SampleFields(3))) \o <<HighByte, CR, LF>> }

TelemetryLines ==
    CountedLines \cup OddLines \cup NonNumericLines \cup SegmentLines
    \cup UnterminatedLines \cup CorruptLines

\* The module's answer to a command it accepts.
OkLine == Frame(<<"+", "O", "K">>)

\* ------------------------------------------------------------------ the program
VARIABLES
    pc,              \* where main is: "open", "set_config", "check_config",
                     \*   "readline", "process", "exited", "crashed"
    exc,             \* the exception that ended the process, or "none"
    io,              \* the writes and reads on the serial port during setup
    printed,         \* setup's last print: <<label, text>>
    serial_payload,  \* the bytes of the last read
    payload,         \* main's payload: the text of the last decoded line
    events,          \* what the current loop iteration printed and logged
    nlines,          \* the number of lines the loop has received
    is_open,         \* serial_conn.isOpen()
    rxbuf,           \* the lines the port has received and main has not read
    rx,              \* the last readline: the line and the command it answers
    stop,            \* a stop request from outside: "no", "raised", "pending"
                     \*   once the read it fell into is over, "ignored" once
                     \*   the loop has gone into another read
    arg,             \* the input of a function examined on its own
    res              \* and its result

vars == <<pc, exc, io, printed, serial_payload, payload, events, nlines,
          is_open, rxbuf, rx, stop, arg, res>>

\* What is not the program's: the stop request and the function examined.
aside == <<stop, arg, res>>

KeyCommand == "AT+CPIN=92A0ECEC9000DA0DCF0CAAB0ABA2E0EF\r\n"
KeyLabel == "AES128 password set?"

\* check_lora_config's queries, in the order of the code.
Queries ==
    << <<"AT?\r\n", "Module responding?">>,
       <<"AT+ADDRESS?\r\n", "Address:">>,
       <<"AT+VER?\r\n", "Firmware version:">>,
       <<"AT+NETWORKID?\r\n", "Network Id:">>,
       <<"AT+IPR?\r\n", "UART baud rate:">>,
       <<"AT+BAND?\r\n", "RF frequency">>,
       <<"AT+CRFOP?\r\n", "RF output power">>,
       <<"AT+MODE?\r\n", "Work mode">>,
       <<"AT+PARAMETER?\r\n", "RF parameters">>,
       <<"AT+CPIN?\r\n", "AES128 password of the network">> >>

\* What readline returns: the bytes, and (not known to main) what the module
\* sent them for: the command they answer, "unsolicited" for a report, "none"
\* when the deadline passed with nothing received.
Line(re, bytes) == [re |-> re, line |-> bytes]
NoLine == Line("none", <<>>)

Write(cmd) == <<"write", cmd>>
Read == <<"read">>

\* The number of queries check_lora_config has completed.
QueriesDone == (Len(io) - 2) \div 2

Init ==
    /\ pc = "open"
    /\ exc = "none"
    /\ io = <<>>
    /\ printed = <<>>
    /\ serial_payload = <<>>
    /\ payload = <<>>
    /\ events = <<>>
    /\ nlines = 0
    /\ is_open = FALSE
    /\ rxbuf = <<>>
    /\ rx = NoLine
    /\ stop = "no"
    /\ arg = <<>>
    /\ res = <<>>

\* A main without the isOpen() test of line 33.
OpenUntested ==
    /\ pc = "open"
    /\ \E outcome \in {"opened", "raised", "closed"} :
          /\ pc' = IF outcome = "raised" THEN "crashed" ELSE "set_config"
          /\ exc' = IF outcome = "raised" THEN "SerialException" ELSE "none"
          /\ is_open' = (outcome = "opened")
    /\ UNCHANGED <<io, printed, serial_payload, payload, events, nlines, rxbuf, rx, aside>>

\* serial.Serial(...) and the isOpen() test: the port opens, or the
\* constructor raises SerialException, or isOpen() is false and main returns.
Open ==
    /\ pc = "open"
    /\ \E outcome \in {"opened", "raised", "closed"} :
          /\ pc' = CASE outcome = "opened" -> "set_config"
                     [] outcome = "raised" -> "crashed"
                     [] outcome = "closed" -> "exited"
          /\ exc' = IF outcome = "raised" THEN "SerialException" ELSE "none"
          /\ is_open' = (outcome = "opened")
    /\ UNCHANGED <<io, printed, serial_payload, payload, events, nlines, rxbuf, rx, aside>>

\* The lines the port holds unread, at most.
MaxBuf == 1

\* What the module answers a command with, when the answer comes in time.
AnswerLines == {OkLine, <<LF>>, <<HighByte, CR, LF>>}

\* A sensor report the module forwards while main is still in setup.
UnsolicitedLine == Line("unsolicited", Frame(Report(SampleFields(NumFields))))

\* What reaches the port after the read has returned: the answer still due
\* (or nothing, it is lost) and then perhaps a report, as far as there is room.
Arrivals(due, room) ==
    { a \in { d \o u : d \in {<<>>, due}, u \in {<<>>, <<UnsolicitedLine>>} } :
        Len(a) <= room }

\* serial_conn.readline() after the write of cmd: the oldest unread line if
\* there is one; else the answer in time, or nothing before the timeout of
\* line 27, or a report that came before the answer.  got is what readline
\* returns and buf what the port holds afterwards.
Deliveries(cmd, buf) ==
    IF buf # <<>>
    THEN { [got |-> Head(buf), buf |-> Tail(buf) \o a] :
             a \in Arrivals(<<Line(cmd, OkLine)>>, MaxBuf - Len(buf) + 1) }
    ELSE { [got |-> Line(cmd, l), buf |-> a] :
             l \in AnswerLines, a \in Arrivals(<<>>, MaxBuf) }
         \cup { [got |-> g, buf |-> a] :
             g \in {NoLine, UnsolicitedLine},
             a \in Arrivals(<<Line(cmd, OkLine)>>, MaxBuf) }

\* One write, one readline, [:-2], decode and print under the label.  A
\* response that is not UTF-8 raises UnicodeDecodeError out of main.
Report1(cmd, label, stripped, d, next) ==
    /\ io' = io \o <<Write(cmd), Read>>
    /\ serial_payload' = stripped
    /\ printed' = IF d.exc = "none" THEN <<label, d.text>> ELSE printed
    /\ pc' = IF d.exc = "none" THEN next ELSE "crashed"
    /\ exc' = IF d.exc = "none" THEN exc ELSE d.exc
    /\ UNCHANGED <<payload, events, nlines, is_open, aside>>

\* An exchange that gives up when the read times out.
ExchangeOrAbort(cmd, label, dl, next) ==
    /\ rx' = dl.got
    /\ rxbuf' = dl.buf
    /\ IF dl.got.line = <<>>
       THEN /\ io' = io \o <<Write(cmd), Read>>
            /\ serial_payload' = <<>>
            /\ pc' = "crashed"
            /\ exc' = "IndexError"
            /\ UNCHANGED <<printed, payload, events, nlines, is_open, aside>>
       ELSE Report1(cmd, label, DropLast2(dl.got.line),
                    BytesDecode(DropLast2(dl.got.line)), next)

Exchange(cmd, label, dl, next) ==
    /\ rx' = dl.got
    /\ rxbuf' = dl.buf
    /\ Report1(cmd, label, DropLast2(dl.got.line),
               BytesDecode(DropLast2(dl.got.line)), next)

\* A main that goes from set_lora_config straight into the loop.
SetLoraConfigOnly ==
    /\ pc = "set_config"
    /\ \E dl \in Deliveries(KeyCommand, rxbuf) :
          Exchange(KeyCommand, KeyLabel, dl, "readline")

\* set_lora_config(serial_conn).
SetLoraConfig ==
    /\ pc = "set_config"
    /\ \E dl \in Deliveries(KeyCommand, rxbuf) :
          Exchange(KeyCommand, KeyLabel, dl, "check_config")

\* check_lora_config(serial_conn), one query at a time.
CheckLoraConfig ==
    /\ pc = "check_config"
    /\ LET q == Queries[QueriesDone + 1]
       IN  \E dl \in Deliveries(q[1], rxbuf) :
              Exchange(q[1], q[2], dl,
                       IF QueriesDone + 1 = Len(Queries) THEN "readline" ELSE "check_config")

\* The number of lines followed through the loop.
MaxLines == 2

\* The test of line 39 letting an empty read through.
HasDataOrNone(bytes) == Len(bytes) >= 0

\* The test of line 39.
HasData(bytes) == Len(bytes) > 0

\* serial_conn.readline() of the loop, and the test of its length.
\* What the loop's readline may return: the oldest unread line if there is
\* one, else a report or nothing before the timeout.
Incoming(buf, n) ==
    IF buf # <<>>
    THEN {Head(buf)}
    ELSE { Line("unsolicited", l) : l \in (IF n < MaxLines THEN TelemetryLines ELSE {}) }
         \cup {NoLine}

\* A stop request meets a loop that has no test of it: the read it fell into
\* returns, and the loop goes into the next.
Overlooked(s) ==
    CASE s = "no" -> "no"
      [] s = "raised" -> "pending"
      [] OTHER -> "ignored"

\* A loop that acknowledges each line it receives with a write.
ReadLineAndAck ==
    /\ pc = "readline"
    /\ \E got \in Incoming(rxbuf, nlines) :
          /\ rx' = got
          /\ serial_payload' = got.line
          /\ pc' = IF HasData(got.line) THEN "process" ELSE "readline"
          /\ nlines' = IF got.line = <<>> THEN nlines ELSE nlines + 1
          /\ io' = IF got.line = <<>> THEN io ELSE io \o <<Write("AT\r\n")>>
    /\ rxbuf' = IF rxbuf # <<>> THEN Tail(rxbuf) ELSE rxbuf
    /\ events' = <<>>
    /\ stop' = Overlooked(stop)
    /\ UNCHANGED <<exc, printed, payload, is_open, arg, res>>

\* serial_conn.readline() of the loop, and the test of its length.
ReadLine ==
    /\ pc = "readline"
    /\ \E got \in Incoming(rxbuf, nlines) :
          /\ rx' = got
          /\ serial_payload' = got.line
          /\ pc' = IF HasData(got.line) THEN "process" ELSE "readline"
          /\ nlines' = IF got.line = <<>> THEN nlines ELSE nlines + 1
    /\ rxbuf' = IF rxbuf # <<>> THEN Tail(rxbuf) ELSE rxbuf
    /\ events' = <<>>
    /\ stop' = Overlooked(stop)
    /\ UNCHANGED <<exc, io, printed, payload, is_open, arg, res>>

\* Lines 40-45: decode as ASCII (on failure log, and payload keeps its
\* value), then drop the last two characters.
Decoded(old, d) ==
    [payload |-> DropLast2(IF d.exc = "none" THEN d.text ELSE old),
     out |-> IF d.exc = "none" THEN <<>> ELSE <<Ev("error", d.exc)>>]

DecodeLine(old, bytes) == Decoded(old, BytesDecode(bytes))

Caught == {"IndexError", "ValueError"}

\* Lines 46-59: the except clauses log a caught exception and the loop goes
\* on; any other exception ends the process.
Handle(text, out, r) ==
    /\ payload' = text
    /\ events' = out \o <<Ev("Payload", text)>> \o r.out
                     \o (IF r.exc \in Caught THEN <<Ev("error", r.exc)>> ELSE <<>>)
    /\ pc' = IF r.exc \in Caught \cup {"none"} THEN "readline" ELSE "crashed"
    /\ exc' = IF r.exc \in Caught \cup {"none"} THEN exc ELSE r.exc

Dispatch(d, strict) == Handle(d.payload, d.out, ParseAndDisplay(d.payload, strict))

\* Lines 40-59: the body of the loop for a line that is not empty.
ProcessLine ==
    /\ pc = "process"
    /\ \E strict \in BOOLEAN : Dispatch(DecodeLine(payload, serial_payload), strict)
    /\ UNCHANGED <<io, printed, serial_payload, nlines, is_open, rxbuf, rx, aside>>

Next == Open \/ SetLoraConfig \/ CheckLoraConfig \/ ReadLine \/ ProcessLine

Spec == Init /\ [][Next]_vars

\* ------------------------------------------------------------------ eight_bit_color on its own
\* The largest sample of the 12-bit colour sensor.
MaxRaw == 4095

\* main's variables while a function is examined outside any run of main.
Apart ==
    /\ exc = "none"
    /\ io = <<>>
    /\ printed = <<>>
    /\ serial_payload = <<>>
    /\ payload = <<>>
    /\ events = <<>>
    /\ nlines = 0
    /\ is_open = FALSE
    /\ rxbuf = <<>>
    /\ rx = NoLine
    /\ stop = "no"

\* A call of eight_bit_color with an integer sample.
InitScale ==
    /\ pc = "eight_bit_color"
    /\ Apart
    /\ arg \in 0..MaxRaw
    /\ res = <<>>

Scale ==
    /\ pc = "eight_bit_color"
    /\ res' = eight_bit_color(Normalize(arg, 1))
    /\ pc' = "returned"
    /\ UNCHANGED <<exc, io, printed, serial_payload, payload, events, nlines,
                   is_open, rxbuf, rx, stop, arg>>

NextScale == Scale

SpecScale == InitScale /\ [][NextScale]_vars

\* ------------------------------------------------------------------ the loop body on two lines
\* Third comma-segments: the sample report, shorter and longer ones, one with
\* a field that is no number, one with an infinity, one with a colour above
\* 12 bits, an empty one.
ThirdSegments ==
    { Join(SampleFields(NumFields), "|"),
      Join(SampleFields(3), "|"),
      Join(SampleFields(MaxFields), "|"),
      Join(Replace(SampleFields(NumFields), 1, <<"x">>), "|"),
      Join(Replace(SampleFields(NumFields), NumFields, <<"i", "n", "f">>), "|"),
      Join(Replace(SampleFields(NumFields), 4, <<"5", "0", "0", "0">>), "|"),
      <<>> }

\* What stands before and after the third segment: the sample's address,
\* length, RSSI and SNR; another address and length; nothing after; more
\* after; empty segments.
Envelopes ==
    { [pre |-> Prefix, post |-> Suffix],
      [pre |-> << <<"+", "R", "C", "V", "=", "7">>, <<"5">> >>, post |-> Suffix],
      [pre |-> Prefix, post |-> <<>>],
      [pre |-> Prefix, post |-> << <<"-", "9", "9">>, <<"1">>, <<"x">> >>],
      [pre |-> << <<>>, <<>> >>, post |-> << <<>> >>] }

Enveloped(e, seg) == Frame(Join(e.pre \o <<seg>> \o e.post, ","))

\* Two lines with the same third segment.
LinePairs ==
    { <<Enveloped(e1, seg), Enveloped(e2, seg)>> :
        e1 \in Envelopes, e2 \in Envelopes, seg \in ThirdSegments }

\* Lines 40-59 for one line, without the echo of the payload: what was
\* logged and displayed, and the exception raised by parsing or display.
Outcome(out, r) == [exc |-> r.exc, out |-> out \o r.out]
BodyOf(d, strict) == Outcome(d.out, ParseAndDisplay(d.payload, strict))
LoopBody(old, bytes, strict) == BodyOf(DecodeLine(old, bytes), strict)

InitDecode ==
    /\ pc = "loop_body"
    /\ Apart
    /\ arg \in LinePairs
    /\ res = <<>>

\* The body of the loop applied to either line, from the same payload.
Decode ==
    /\ pc = "loop_body"
    /\ \E strict \in BOOLEAN :
          res' = <<LoopBody(payload, arg[1], strict), LoopBody(payload, arg[2], strict)>>
    /\ pc' = "returned"
    /\ UNCHANGED <<exc, io, printed, serial_payload, payload, events, nlines,
                   is_open, rxbuf, rx, stop, arg>>

NextDecode == Decode

SpecDecode == InitDecode /\ [][NextDecode]_vars

\* ------------------------------------------------------------------ the stop request
\* Someone outside asks the running loop to stop.  Nothing in main reads the
\* request: line 37 is "while True".
RaiseStop ==
    /\ pc \in {"readline", "process"}
    /\ stop = "no"
    /\ stop' = "raised"
    /\ UNCHANGED <<pc, exc, io, printed, serial_payload, payload, events, nlines,
                   is_open, rxbuf, rx, arg, res>>

NextStop == Next \/ RaiseStop

\* The program with a caller that may ask it to stop.
SpecStop == Init /\ [][NextStop]_vars

\* ------------------------------------------------------------------ reading the outputs
Measurements ==
    {"SensorData", "Temperature", "Humidity", "Pressure", "Color12", "Color8",
     "Swatch", "Intensity"}

\* The failures logged, in order.
Failures(ev) == SelectSeq(ev, LAMBDA e : e[1] = "error")
\* Something of a record was displayed.
HasMeasurement(ev) == \E i \in 1..Len(ev) : ev[i][1] \in Measurements
\* A whole record was displayed: display_color ran to its last print.
HasRecord(ev) == \E i \in 1..Len(ev) : ev[i][1] = "Intensity"
\* Where the list printed as "Sensor Data" is.
SensorData(ev) == CHOOSE i \in 1..Len(ev) : ev[i][1] = "SensorData"

\* The loop body has run for the line in serial_payload.
Processed == pc \in {"readline", "crashed"} /\ events # <<>>
\* The line in serial_payload is ASCII text.
Decodable == BytesDecode(serial_payload).exc = "none"
\* The text of the line in serial_payload without its last two characters.
LineText == DropLast2(BytesDecode(serial_payload).text)
\* The sub-fields of a text's third comma-segment; none if it has no third.
SubFields(text) ==
    IF Len(Split(text, ",")) < 3 THEN <<>> ELSE Split(Split(text, ",")[3], "|")

\* The writes and reads of a complete setup, from the AT command reference.
SetupIo ==
    << <<"write", "AT+CPIN=92A0ECEC9000DA0DCF0CAAB0ABA2E0EF\r\n">>, <<"read">>,
       <<"write", "AT?\r\n">>, <<"read">>,
       <<"write", "AT+ADDRESS?\r\n">>, <<"read">>,
       <<"write", "AT+VER?\r\n">>, <<"read">>,
       <<"write", "AT+NETWORKID?\r\n">>, <<"read">>,
       <<"write", "AT+IPR?\r\n">>, <<"read">>,
       <<"write", "AT+BAND?\r\n">>, <<"read">>,
       <<"write", "AT+CRFOP?\r\n">>, <<"read">>,
       <<"write", "AT+MODE?\r\n">>, <<"read">>,
       <<"write", "AT+PARAMETER?\r\n">>, <<"read">>,
       <<"write", "AT+CPIN?\r\n">>, <<"read">> >>
IsPrefix(a, b) == Len(a) <= Len(b) /\ a = SubSeq(b, 1, Len(a))

\* ------------------------------------------------------------------ the claims

\* C1: every non-empty line read in the loop has produced exactly one outcome,
\* a whole record or one logged failure, never both and never none, by the
\* time the next read is issued.
C1_OneOutcomePerLine ==
    Processed => Len(Failures(events)) + (IF HasRecord(events) THEN 1 ELSE 0) = 1

\* C2: a line whose bytes are not text yields the encoding failure and no
\* record: nothing is displayed from text kept from an earlier line.
C2_UndecodableLineYieldsNoRecord ==
    (Processed /\ ~Decodable) =>
        /\ Ev("error", "UnicodeDecodeError") \in {events[i] : i \in 1..Len(events)}
        /\ ~HasMeasurement(events)

\* C3: no line received in the loop ends the process: after every line the
\* program is back at the read.
C3_NoLineEndsTheLoop == nlines > 0 => pc \in {"readline", "process"}

\* C4: a line with fewer than 3 comma-segments, or whose third segment has
\* fewer or more than 7 sub-fields, yields the field-count failure
\* (IndexError) alone and no record.
C4_WrongFieldCountIsRejected ==
    (Processed /\ Decodable /\ Len(SubFields(LineText)) # NumFields) =>
        /\ Failures(events) = <<Ev("error", "IndexError")>>
        /\ ~HasMeasurement(events)

\* C5: a record is all or nothing: no measurement is displayed for a line
\* unless all 7 fields were parsed.
C5_NoPartialRecord ==
    (Processed /\ HasMeasurement(events)) =>
        Len(events[SensorData(events)][2]) >= NumFields

\* Reports of 7 sub-fields with a text that is no number at any one place.
NonNumericReports ==
    { Frame(Report(Replace(SampleFields(NumFields), p, x))) :
        p \in 1..NumFields, x \in NonNumbers }
HasNonNumber(fields) ==
    /\ Len(fields) = NumFields
    /\ \E i \in 1..Len(fields) : ParseFloat(fields[i]).exc # "none"
\* C6: a line of text whose third comma-segment has 7 sub-fields, one of
\* them no number, yields the numeric-format failure (ValueError) alone, no
\* measurement, and the loop is back at the read.
C6_NonNumericFieldIsRejected ==
    (/\ Processed
     /\ \/ serial_payload \in NonNumericReports
        \/ Decodable /\ HasNonNumber(SubFields(LineText)))
    => /\ events = <<Ev("Payload", LineText), Ev("error", "ValueError")>>
       /\ pc = "readline"
       /\ exc = "none"
C6_Witness ==
    /\ Processed
    /\ serial_payload = Frame(Report(Replace(SampleFields(NumFields), NumFields, <<"x">>)))
    /\ Failures(events) = <<Ev("error", "ValueError")>>
    /\ pc = "readline"

\* Reports of 7 numbers, each with the floats its sub-fields stand for.
WellFormedReports ==
    { [line |-> Frame(Report(SampleFields(NumFields))), vals |-> SampleValues(NumFields)] }
    \cup { [line |-> Frame(Report(Replace(SampleFields(NumFields), p, o.text))),
            vals |-> Replace(SampleValues(NumFields), p, o.val)] :
             p \in 1..NumFields, o \in OddNumbers }
\* C7: a CR LF terminated report of 7 numbers is parsed into exactly those
\* numbers, in their order; the sample report of the source is displayed as a
\* whole record with no failure.
C7_ReportDecodesToItsFields ==
    Processed =>
        /\ \A w \in WellFormedReports :
              serial_payload = w.line =>
                  /\ Len(events) >= 2
                  /\ events[1] = Ev("Payload", LineText)
                  /\ events[2] = Ev("SensorData", w.vals)
        /\ serial_payload = Frame(Report(SampleFields(NumFields))) =>
              /\ HasRecord(events)
              /\ Failures(events) = <<>>
              /\ pc = "readline"
C7_Witness ==
    /\ Processed
    /\ serial_payload = Frame(Report(SampleFields(NumFields)))
    /\ events[2] = Ev("SensorData", SampleValues(NumFields))
    /\ HasRecord(events)

\* C8: a read of the loop that returns nothing emits nothing, leaves the
\* program in the loop, and the next step is another read.
C8_EmptyReadLoopsAgain ==
    [][(pc = "readline" /\ serial_payload' = <<>>) =>
          /\ pc' = "readline"
          /\ events' = <<>>
          /\ exc' = "none"
          /\ payload' = payload
          /\ io' = io]_vars
C8_Witness ==
    /\ pc = "readline"
    /\ nlines > 0
    /\ serial_payload = <<>>
    /\ events = <<>>

\* C9: the key command is written and its answer read first, then the ten
\* queries once, and only then is a telemetry line read; nothing is emitted
\* before setup is over.
C9_SetupBeforeTelemetry ==
    /\ IsPrefix(io, SetupIo)
    /\ (pc \in {"readline", "process"} \/ nlines > 0 \/ events # <<>>) => io = SetupIo
    /\ pc \in {"open", "set_config", "check_config"} => (events = <<>> /\ nlines = 0)
    /\ pc = "set_config" => io = <<>>
    /\ pc = "check_config" => (Len(io) >= 2 /\ Len(io) < Len(SetupIo))
C9_Witness ==
    /\ Processed
    /\ HasRecord(events)
    /\ io = SetupIo

\* The labels of the ten queries: module alive, address, firmware version,
\* network id, UART rate, RF band, RF output power, work mode, RF parameters,
\* network key.
QueryLabels ==
    << "Module responding?", "Address:", "Firmware version:", "Network Id:",
       "UART baud rate:", "RF frequency", "RF output power", "Work mode",
       "RF parameters", "AES128 password of the network" >>
\* C10: the ten queries are issued in the fixed order, each write followed by
\* one read; a query whose read times out is reported with an empty response
\* under its own label and the next query is issued.
C10_TimeoutsDoNotStopDiagnostics ==
    /\ [](IsPrefix(io, SetupIo) /\ (pc = "readline" => Len(io) = Len(SetupIo)))
    /\ [][(pc = "check_config" /\ serial_payload' = <<>>) =>
             /\ io' = SubSeq(SetupIo, 1, Len(io) + 2)
             /\ printed' = <<QueryLabels[Len(io) \div 2], <<>> >>
             /\ exc' = "none"
             /\ pc' = IF Len(io') = Len(SetupIo) THEN "readline" ELSE "check_config"]_vars
C10_Witness ==
    /\ pc = "check_config"
    /\ Len(io) = 8
    /\ serial_payload = <<>>
    /\ printed = <<"Firmware version:", <<>> >>

\* C11: nothing the module sends during setup keeps main from the loop: once
\* the port is open, whatever the acknowledgement and the ten responses are
\* (none, empty, shorter than two bytes, bytes that are not text), main is in
\* setup or in the loop, and has not ended, as long as no telemetry line has
\* been read.
C11_SetupNeverPreventsListening ==
    (is_open /\ nlines = 0) => pc \in {"set_config", "check_config", "readline", "process"}

\* C12: when the port cannot be opened the program ends at once, by the
\* exception of the constructor or by the isOpen() test: nothing has been
\* written, read, printed or logged, and no step follows.
C12_OpenFailureIsTerminal ==
    /\ [](~is_open =>
             /\ pc \in {"open", "exited", "crashed"}
             /\ io = <<>>
             /\ printed = <<>>
             /\ events = <<>>
             /\ rx = NoLine
             /\ nlines = 0)
    /\ [][/\ (pc = "open" \/ is_open)
          /\ (~is_open' => (pc' \in {"exited", "crashed"} /\ io' = <<>>))]_vars
C12_Witness ==
    /\ ~is_open
    /\ pc = "crashed"
    /\ exc = "SerialException"
    /\ io = <<>>

\* C13: the loop tests a stop request once per iteration: after a request the
\* read in progress may return and its line be processed, but the loop does
\* not go into another read.
C13_StopEndsTheLoopWithinOneIteration == stop # "ignored"

\* C14: set_lora_config writes the key command once and reads once; when no
\* acknowledgement came before the deadline what it reports (the label with
\* an empty text) is reported in that case only, never for a line received.
C14_KeyTimeoutIsDistinguishable ==
    (pc = "check_config" /\ Len(io) = 2) =>
        /\ io = <<Write(KeyCommand), Read>>
        /\ (printed = <<KeyLabel, <<>> >>) <=> (rx = NoLine)

\* n/d for n >= 0 rounded to the nearest integer, ties away from zero.
RoundHalfAway(n, d) == (2 * n + d) \div (2 * d)
\* The distance of n from m.
Dist(n, m) == IF n >= m THEN n - m ELSE m - n

\* C15: for an integer sample in 0..4095 eight_bit_color returns the integer
\* nearest to sample*255/4097: it is in 0..255, never less than the result
\* for the sample before, 0 for 0 and 255 for 4095; the quotient is never
\* half-way between two integers, so rounding ties away from zero gives the
\* same result as rounding them to even.
C15_ScaledColourIsNearestInteger ==
    pc = "returned" =>
        /\ res.exc = "none"
        /\ res.val \in 0..255
        /\ 2 * Dist(arg * 255, res.val * 4097) < 4097
        /\ 2 * ((arg * 255) % 4097) # 4097
        /\ res.val = RoundHalfAway(arg * 255, 4097)
        /\ arg > 0 => eight_bit_color(Normalize(arg - 1, 1)).val <= res.val
        /\ arg = 0 => res.val = 0
        /\ arg = 4095 => res.val = 255
C15_Witness ==
    /\ pc = "returned"
    /\ arg = 4095
    /\ res = [exc |-> "none", val |-> 255]

\* A floating-point value within the 12 bits of the sensor.
InRange12(v) == v.kind = "fin" /\ 0 <= v.num /\ v.num <= 4095 * v.den

\* C16: the colour work of the loop stays in range: the four values scaled
\* for the swatches are each in 0..255, and a record that was displayed to
\* its end has its four colour samples in 0..4095.
C16_ColoursStayInRange ==
    Processed =>
        \A i \in 1..Len(events) :
            /\ events[i][1] = "Color8" =>
                  \A k \in 1..4 : events[i][2][k] \in 0..255
            /\ (events[i][1] = "Color12" /\ HasRecord(events)) =>
                  \A k \in 1..4 : InRange12(events[i][2][k])

\* C17: during setup the line reported under a label is the module's answer
\* to the command written just before, or nothing when the read timed out:
\* never the late answer to an earlier command, never a sensor report.
C17_ResponsesArePaired ==
    (io # <<>> /\ nlines = 0) =>
        /\ rx.re \in {"none", io[Len(io) - 1][2]}
        /\ serial_payload = DropLast2(rx.line)

\* The commands written to the port so far, in order.
Written == [i \in 1..Len(SelectSeq(io, LAMBDA e : e[1] = "write")) |->
               SelectSeq(io, LAMBDA e : e[1] = "write")[i][2]]
\* The key command and the ten queries.
SetupCommands == <<KeyCommand>> \o [i \in 1..Len(Queries) |-> Queries[i][1]]

\* C18: the port is written to during setup only: what has been written is
\* always a beginning of the key command followed by the ten queries, in the
\* loop it is exactly these eleven, and no step of the loop, whatever line
\* it receives, writes anything more.
C18_WritesOnlyDuringSetup ==
    /\ [](/\ IsPrefix(Written, SetupCommands)
          /\ (pc \in {"readline", "process"} \/ nlines > 0) =>
                (Written = SetupCommands /\ Len(Written) = 11))
    /\ [][(pc \in {"readline", "process"}) => (io' = io)]_vars
C18_Witness ==
    /\ pc = "process"
    /\ nlines = 2
    /\ Len(Written) = 11
    /\ rx.re = "unsolicited"

\* C19: what the loop makes of a line depends on its third comma-segment
\* only: two lines of three or more segments with the same third segment,
\* whatever their address, length field and what follows the third segment,
\* give the same record or the same failure.
C19_OutcomeDependsOnThirdSegmentOnly ==
    pc = "returned" =>
        /\ res[1] = res[2]
        /\ res[1].exc = "none" =>
              res[1].out[1] = Ev("SensorData", parse_payload(DropLast2(BytesDecode(arg[2]).text)).val)
C19_Witness ==
    /\ pc = "returned"
    /\ arg[1] # arg[2]
    /\ Len(arg[1]) < Len(arg[2])
    /\ res[1].exc = "none"
    /\ HasRecord(res[2].out)

====
